---- MODULE Spec2Model ----
(***************************************************************************)
(* Device-key custody of sunshine-identity.                                *)
(*                                                                         *)
(* The substrate Keystore (keystore/substrate/src/lib.rs) is a thin shell  *)
(* around keybase_keystore::Keystore: it keeps an optional cached signer   *)
(* and an in-memory copy of the generation, and forwards every operation   *)
(* to the inner store.  The shell is translated from the source; the inner *)
(* store (persisted ciphertext, persisted generation, cached seed) is not  *)
(* among the source files and is modelled from the specification           *)
(* (operators named Inner*, Encrypt, Decrypt, KeyFor).                     *)
(***************************************************************************)
EXTENDS Integers, Sequences, FiniteSets, TLC

VARIABLES
    store,   \* per copy: the persisted store (ciphertext, generation, cached seed)
    ks,      \* per copy: the Keystore struct (signer, gen)
    last,    \* the last step of a call: operation, copy, arguments, result
    provKey, \* history: key of the last successful provision_device, while no re-keying happened since
    since,   \* history: what happened since the last lock() call on the copy
    applied, \* history, per store: the target and the caller of the last successful apply_mask
    provAcct,\* history, per store: the account provision_device returned, while the key was not replaced
    svc,     \* the Service identifier being parsed and displayed
    pend     \* per Keystore: the call suspended at an await, if any

vars == <<store, ks, last, provKey, since, applied, provAcct, svc, pend>>

(***************************************************************************)
(* Bounds of the model.                                                    *)
(***************************************************************************)
KeyBits == 2        \* width of keys, masks and seeds (32 bytes in the program)
NumPasswords == 2   \* distinct password strings tried
NumSeeds == 2       \* distinct seeds DeviceKey::generate can draw
MaxGen == 2         \* successful apply_mask steps are taken below this generation ...
MaxParts == 3       \* identifier strings are up to this many words joined by "@"
GenMax == 65535     \* ... and at the top of the u16 range

RECURSIVE Pow2(_)
Pow2(n) == IF n = 0 THEN 1 ELSE 2 * Pow2(n - 1)

Keys == 0 .. (Pow2(KeyBits) - 1)
Seeds == 0 .. (NumSeeds - 1)
Passwords == 1 .. NumPasswords
Copies == {"A", "B"}

\* The Keystore handles: one per copy, and a second one, A2, opened on the path of
\* copy A (another process, or another open of the same path).
Handles == Copies \cup {"A2"}
StoreOf(h) == IF h = "A2" THEN "A" ELSE h

\* Option<T>: None is the empty sequence, Some(x) the one-element sequence.
None == << >>
Some(x) == << x >>

RECURSIVE XorBits(_, _, _)
XorBits(a, b, n) ==
    IF n = 0 THEN 0
    ELSE (((a % 2) + (b % 2)) % 2) + (2 * XorBits(a \div 2, b \div 2, n - 1))

Xor(a, b) == XorBits(a, b, KeyBits)

(***************************************************************************)
(* Password / cipher boundary (specification 4.3).                         *)
(***************************************************************************)
\* Password::new: the key derived from a password string; deterministic and injective.
KeyFor(p) == (3 * p) % Pow2(KeyBits)

\* Password::from([u8; 32]): wraps the 32 bytes as they are.
PasswordFrom(k) == k

\* The public counterpart of a seed.
Pub(s) == << "pub", s >>

NoCt == [present |-> FALSE, body |-> 0, tag |-> None]

\* Authenticated encryption over an XOR-compatible stream construction.
Encrypt(k, s) == [present |-> TRUE, body |-> Xor(s, k), tag |-> Some(Pub(s))]

Decrypt(k, ct) ==
    LET s == Xor(ct.body, k)
    IN  IF ct.present /\ ct.tag = Some(Pub(s))
        THEN [ok |-> TRUE, seed |-> s]
        ELSE [ok |-> FALSE, seed |-> 0]

(***************************************************************************)
(* The inner store, keybase_keystore::Keystore (specification 3 and 4.1).  *)
(* st = [ct, sgen, cached]: the persisted ciphertext, the persisted        *)
(* generation and the seed cached while the store is unlocked.             *)
(* Every operation returns [ok, err, st, ...].                             *)
(***************************************************************************)
NoStore == [ct |-> NoCt, sgen |-> 0, cached |-> None]

\* gen(): the persisted generation, 0 when none is persisted.
InnerGen(st) == st.sgen

\* device_key(): the seed, available only while the store is unlocked.
InnerDeviceKey(st) ==
    IF st.cached # None
    THEN [ok |-> TRUE, err |-> "", seed |-> st.cached[1]]
    ELSE [ok |-> FALSE, err |-> "Locked", seed |-> 0]

\* set_device_key(key, password, force)
InnerSetDeviceKey(st, seed, k, force) ==
    IF st.ct.present /\ ~force
    THEN [ok |-> FALSE, err |-> "HasDeviceKey", st |-> st]
    ELSE [ok |-> TRUE, err |-> "",
          st |-> [ct |-> Encrypt(k, seed), sgen |-> st.sgen, cached |-> Some(seed)]]

\* provision_device_key(password, gen): a fresh seed, persisted at gen.
\* entropy = FALSE: secure randomness is unavailable.
InnerProvisionDeviceKey(st, k, gen, seed, entropy) ==
    IF st.ct.present
    THEN [ok |-> FALSE, err |-> "HasDeviceKey", st |-> st, seed |-> 0]
    ELSE IF ~entropy
    THEN [ok |-> FALSE, err |-> "EntropyError", st |-> st, seed |-> 0]
    ELSE [ok |-> TRUE, err |-> "",
          st |-> [ct |-> Encrypt(k, seed), sgen |-> gen, cached |-> Some(seed)],
          seed |-> seed]

\* lock(): always succeeds, wipes the cached seed.
InnerLock(st) == [ok |-> TRUE, err |-> "", st |-> [st EXCEPT !.cached = None]]

\* unlock(password): decrypts the ciphertext; a failure leaves the store as it was.
InnerUnlock(st, k) ==
    LET d == Decrypt(k, st.ct)
    IN  IF ~st.ct.present
        THEN [ok |-> FALSE, err |-> "StorageError", st |-> st, seed |-> 0]
        ELSE IF ~d.ok
        THEN [ok |-> FALSE, err |-> "DecryptionError", st |-> st, seed |-> 0]
        ELSE [ok |-> TRUE, err |-> "", st |-> [st EXCEPT !.cached = Some(d.seed)],
              seed |-> d.seed]

\* change_password_mask(new_password): keyFor(new) XOR current key, targeting
\* current_gen + 1; needs the unlocked seed to recover the current key; reads only.
\* At the top of the u16 range current_gen + 1 is no generation: the call fails.
InnerChangePasswordMask(st, k) ==
    IF st.cached = None \/ ~st.ct.present
    THEN [ok |-> FALSE, err |-> "Locked", mask |-> 0, gen |-> 0]
    ELSE IF st.sgen + 1 > GenMax
    THEN [ok |-> FALSE, err |-> "GenerationOverflow", mask |-> 0, gen |-> 0]
    ELSE [ok |-> TRUE, err |-> "",
          mask |-> Xor(k, Xor(st.ct.body, st.cached[1])),
          gen |-> st.sgen + 1]

\* apply_mask(mask, next_gen): the fencing check, then the re-keying of the
\* ciphertext and the generation bump, persisted together.
InnerApplyMask(st, mask, next_gen) ==
    IF next_gen # st.sgen + 1
    THEN [ok |-> FALSE, err |-> "StaleGenerationError", st |-> st]
    ELSE IF ~st.ct.present
    THEN [ok |-> FALSE, err |-> "StorageError", st |-> st]
    ELSE [ok |-> TRUE, err |-> "",
          st |-> [st EXCEPT !.ct.body = Xor(st.ct.body, mask), !.sgen = next_gen]]

(***************************************************************************)
(* The substrate Keystore, keystore/substrate/src/lib.rs.                  *)
(* k = [signer, gen] is the struct (its keystore field is st).             *)
(* Every operation returns [ok, err, ks, st, ...].                         *)
(***************************************************************************)
\* Key::from_seed
FromSeed(seed) == [key |-> seed]

\* Key::to_signer: the pair signer of the seed, identified by its account.
ToSigner(key) == [account |-> Pub(key.key)]

\* Mutant: the generation is not loaded from the store.
KsOpenBuild_GenZero(gen, st) ==
    LET dk == InnerDeviceKey(st)
    IN  [signer |-> IF dk.ok THEN Some(ToSigner(FromSeed(dk.seed))) ELSE None,
         gen |-> 0]

\* Keystore::open, first await: the generation read from the store.
KsOpenRead(st) == InnerGen(st)

\* Keystore::open, second await and the value returned: the signer of the device
\* key the store hands out now, and the generation read before.
KsOpenBuild(gen, st) ==
    LET dk == InnerDeviceKey(st)
    IN  [signer |-> IF dk.ok THEN Some(ToSigner(FromSeed(dk.seed))) ELSE None,
         gen |-> gen]

\* Keystore::open with nothing happening to the store between its two awaits.
KsOpen(st) == KsOpenBuild(KsOpenRead(st), st)

\* Keystore::chain_signer / offchain_signer
ChainSigner(k) == k.signer

\* Keystore::gen
KsGen(k) == k.gen

\* Mutant: the caller's force flag is ignored and the key always overwritten.
KsSetDeviceKey_AlwaysForce(k, st, key, password, force) ==
    LET r == InnerSetDeviceKey(st, key.key, KeyFor(password), TRUE)
    IN  IF ~r.ok
        THEN [ok |-> FALSE, err |-> r.err, ks |-> k, st |-> r.st]
        ELSE [ok |-> TRUE, err |-> "",
              ks |-> [k EXCEPT !.signer = Some(ToSigner(key))], st |-> r.st]

\* Mutant: the signer is kept from before the call when the store accepts the key.
KsSetDeviceKey_KeepsSigner(k, st, key, password, force) ==
    LET r == InnerSetDeviceKey(st, key.key, KeyFor(password), force)
    IN  [ok |-> r.ok, err |-> r.err, ks |-> k, st |-> r.st]

\* Mutant: the signer is replaced before the store has accepted the key.
KsSetDeviceKey_SignerFirst(k, st, key, password, force) ==
    LET r == InnerSetDeviceKey(st, key.key, KeyFor(password), force)
    IN  [ok |-> r.ok, err |-> r.err,
         ks |-> [k EXCEPT !.signer = Some(ToSigner(key))], st |-> r.st]

\* Keystore::set_device_key
KsSetDeviceKey(k, st, key, password, force) ==
    LET r == InnerSetDeviceKey(st, key.key, KeyFor(password), force)
    IN  IF ~r.ok
        THEN [ok |-> FALSE, err |-> r.err, ks |-> k, st |-> r.st]
        ELSE [ok |-> TRUE, err |-> "",
              ks |-> [k EXCEPT !.signer = Some(ToSigner(key))], st |-> r.st]

\* Mutant: the account returned is derived from the password, not the device key.
KsProvisionDevice_AccountOfPassword(k, st, password, gen, seed, entropy) ==
    LET r == InnerProvisionDeviceKey(st, PasswordFrom(password), gen, seed, entropy)
    IN  IF ~r.ok
        THEN [ok |-> FALSE, err |-> r.err, ks |-> k, st |-> r.st, account |-> None]
        ELSE LET signer == ToSigner(FromSeed(r.seed))
             IN  [ok |-> TRUE, err |-> "",
                  ks |-> [k EXCEPT !.signer = Some(signer)], st |-> r.st,
                  account |-> Some(Pub(password))]

\* Keystore::provision_device
KsProvisionDevice(k, st, password, gen, seed, entropy) ==
    LET r == InnerProvisionDeviceKey(st, PasswordFrom(password), gen, seed, entropy)
    IN  IF ~r.ok
        THEN [ok |-> FALSE, err |-> r.err, ks |-> k, st |-> r.st, account |-> None]
        ELSE LET signer == ToSigner(FromSeed(r.seed))
             IN  [ok |-> TRUE, err |-> "",
                  ks |-> [k EXCEPT !.signer = Some(signer)], st |-> r.st,
                  account |-> Some(signer.account)]

\* Keystore::lock, up to its await: the cached signer is dropped.
KsLockBegin(k) == [k EXCEPT !.signer = None]

\* Mutant: locking a store that is already locked is reported as an error.
KsLockStore_FailsWhenLocked(k, st) ==
    LET r == InnerLock(st)
    IN  IF st.cached = None
        THEN [ok |-> FALSE, err |-> "Locked", ks |-> k, st |-> r.st]
        ELSE [ok |-> r.ok, err |-> r.err, ks |-> k, st |-> r.st]

\* Keystore::lock, its await: the store's lock() and the Result returned.
KsLockStore(k, st) ==
    LET r == InnerLock(st)
    IN  [ok |-> r.ok, err |-> r.err, ks |-> k, st |-> r.st]

\* Keystore::lock run to its end.
KsLock(k, st) == KsLockStore(KsLockBegin(k), st)

\* Mutant: the store's error is swallowed and the call reports success.
KsUnlock_SwallowsError(k, st, password) ==
    LET r == InnerUnlock(st, KeyFor(password))
    IN  IF ~r.ok
        THEN [ok |-> TRUE, err |-> "", ks |-> k, st |-> r.st]
        ELSE [ok |-> TRUE, err |-> "",
              ks |-> [k EXCEPT !.signer = Some(ToSigner(FromSeed(r.seed)))],
              st |-> r.st]

\* Mutant: the cached signer is dropped before the store is asked to unlock.
KsUnlock_ClearsFirst(k, st, password) ==
    LET r == InnerUnlock(st, KeyFor(password))
    IN  IF ~r.ok
        THEN [ok |-> FALSE, err |-> r.err, ks |-> [k EXCEPT !.signer = None], st |-> r.st]
        ELSE [ok |-> TRUE, err |-> "",
              ks |-> [k EXCEPT !.signer = Some(ToSigner(FromSeed(r.seed)))],
              st |-> r.st]

\* Keystore::unlock
KsUnlock(k, st, password) ==
    LET r == InnerUnlock(st, KeyFor(password))
    IN  IF ~r.ok
        THEN [ok |-> FALSE, err |-> r.err, ks |-> k, st |-> r.st]
        ELSE [ok |-> TRUE, err |-> "",
              ks |-> [k EXCEPT !.signer = Some(ToSigner(FromSeed(r.seed)))],
              st |-> r.st]

\* Mutant: the target generation is computed from the struct's gen field.
KsChangePasswordMask_FromField(k, st, password) ==
    LET r == InnerChangePasswordMask(st, KeyFor(password))
    IN  IF ~r.ok
        THEN [ok |-> FALSE, err |-> r.err, ks |-> k, st |-> st, mask |-> 0, gen |-> 0]
        ELSE [ok |-> TRUE, err |-> "", ks |-> k, st |-> st,
              mask |-> r.mask, gen |-> k.gen + 1]

\* Mutant: the current generation is returned instead of the one the mask targets.
KsChangePasswordMask_CurrentGen(k, st, password) ==
    LET r == InnerChangePasswordMask(st, KeyFor(password))
    IN  IF ~r.ok
        THEN [ok |-> FALSE, err |-> r.err, ks |-> k, st |-> st, mask |-> 0, gen |-> 0]
        ELSE [ok |-> TRUE, err |-> "", ks |-> k, st |-> st,
              mask |-> r.mask, gen |-> k.gen]

\* Keystore::change_password_mask
KsChangePasswordMask(k, st, password) ==
    LET r == InnerChangePasswordMask(st, KeyFor(password))
    IN  IF ~r.ok
        THEN [ok |-> FALSE, err |-> r.err, ks |-> k, st |-> st, mask |-> 0, gen |-> 0]
        ELSE [ok |-> TRUE, err |-> "", ks |-> k, st |-> st,
              mask |-> r.mask, gen |-> r.gen]

\* Mutant: the store's error is dropped; gen is assigned and success reported.
KsApplyMask_SwallowsError(k, st, mask, next_gen) ==
    LET r == InnerApplyMask(st, mask, next_gen)
    IN  [ok |-> TRUE, err |-> "", ks |-> [k EXCEPT !.gen = next_gen], st |-> r.st]

\* Mutant: gen is assigned before the store has accepted the mask.
KsApplyMask_GenFirst(k, st, mask, next_gen) ==
    LET r == InnerApplyMask(st, mask, next_gen)
    IN  [ok |-> r.ok, err |-> r.err, ks |-> [k EXCEPT !.gen = next_gen], st |-> r.st]

\* Keystore::apply_mask
KsApplyMask(k, st, mask, next_gen) ==
    LET r == InnerApplyMask(st, mask, next_gen)
    IN  IF ~r.ok
        THEN [ok |-> FALSE, err |-> r.err, ks |-> k, st |-> r.st]
        ELSE [ok |-> TRUE, err |-> "", ks |-> [k EXCEPT !.gen = next_gen], st |-> r.st]

(***************************************************************************)
(* Service identifiers, client/src/service.rs.  A string is a sequence of  *)
(* one-character strings.                                                  *)
(***************************************************************************)
At == "@"
GithubName == << "g", "i", "t", "h", "u", "b" >>

\* Service::Github(username); NoVal stands for no value.
Github(username) == [variant |-> "Github", username |-> username]
NoVal == [variant |-> "None", username |-> << >>]

\* Service::username
Username(v) == v.username

\* Service::service
ServiceName(v) == GithubName

\* Mutant: the service is written before the username.
Fmt_ServiceFirst(v) == ServiceName(v) \o << At >> \o Username(v)

\* impl Display for Service: "{username}@{service}"
Fmt(v) == Username(v) \o << At >> \o ServiceName(v)

\* str::split("@"): the segments between the separators, at least one.
RECURSIVE Split(_)
Split(s) ==
    IF \A i \in 1 .. Len(s) : s[i] # At
    THEN << s >>
    ELSE LET i == CHOOSE i \in 1 .. Len(s) :
                      s[i] = At /\ \A j \in 1 .. (i - 1) : s[j] # At
         IN  << SubSeq(s, 1, i - 1) >> \o Split(SubSeq(s, i + 1, Len(s)))

\* Result<Service, ServiceParseError>
ParseOk(v) == [kind |-> "Ok", val |-> v, unknown |-> << >>]
ParseInvalid == [kind |-> "Invalid", val |-> NoVal, unknown |-> << >>]
ParseUnknown(service) == [kind |-> "Unknown", val |-> NoVal, unknown |-> service]
NoResult == [kind |-> "None", val |-> NoVal, unknown |-> << >>]

\* Mutant: a third segment is not looked for.
FromStr_IgnoresRest(string) ==
    LET parts == Split(string)
    IN  IF parts[1] = << >> THEN ParseInvalid
        ELSE IF Len(parts) < 2 THEN ParseInvalid
        ELSE IF parts[2] = << >> THEN ParseInvalid
        ELSE IF parts[2] = GithubName THEN ParseOk(Github(parts[1]))
        ELSE ParseUnknown(parts[2])

\* impl FromStr for Service
FromStr(string) ==
    LET parts == Split(string)
    IN  IF parts[1] = << >> THEN ParseInvalid
        ELSE IF Len(parts) < 2 THEN ParseInvalid
        ELSE IF parts[2] = << >> THEN ParseInvalid
        ELSE IF Len(parts) > 2 THEN ParseInvalid
        ELSE IF parts[2] = GithubName THEN ParseOk(Github(parts[1]))
        ELSE ParseUnknown(parts[2])

\* The words strings are built from, and the strings: up to MaxParts words
\* joined by "@".
Words == { << >>, << "a" >>, GithubName, << "g", "i", "t" >>,
           << "g", "i", "t", "l", "a", "b" >> }

RECURSIVE Joined(_)
Joined(n) ==
    IF n = 1 THEN Words
    ELSE LET shorter == Joined(n - 1)
         IN  shorter \cup {s \o << At >> \o w : s \in shorter, w \in Words}

Strings == Joined(MaxParts)

\* No identifier parsed yet.
NoService == [op |-> "none", origin |-> "none", inp |-> << >>, res |-> NoResult,
              val |-> NoVal, out |-> << >>, back |-> NoResult]

(***************************************************************************)
(* The state machine: one action per operation, on either copy.            *)
(***************************************************************************)
\* The record of a call; arguments an operation does not take are 0 / FALSE.
Call(op, c, r, pw, gen, mask, seed, force) ==
    [op |-> op, c |-> c, ok |-> r.ok, err |-> r.err,
     pw |-> pw, gen |-> gen, mask |-> mask, seed |-> seed, force |-> force]

NoCall == [op |-> "open", c |-> "A", ok |-> TRUE, err |-> "",
           pw |-> 0, gen |-> 0, mask |-> 0, seed |-> 0, force |-> FALSE]

\* Generations a caller passes to provision_device: small ones and the top of the
\* u16 range.
GenInputs == {0, 1, GenMax - 1, GenMax}

\* The 32-byte passwords a caller passes to provision_device: the keys of the
\* password strings, and one that is the key of none of them.
ProvisionKeys == {KeyFor(p) : p \in Passwords} \cup {0}

\* The seed DeviceKey::generate draws and whether randomness is available: neither
\* is looked at when the store already holds a device key.
FreshSeeds(st) == IF st.ct.present THEN {0} ELSE Seeds
Entropy(st) == IF st.ct.present THEN {TRUE} ELSE BOOLEAN

\* Generations passed to apply_mask at a store: the next one, stale and skipping ones.
NextGenInputs(st) ==
    {g \in {0, st.sgen, st.sgen + 1, st.sgen + 2} : g <= GenMax}

\* The state after Keystore::open on an absent store, on every copy.
Init ==
    /\ store = [c \in Copies |-> NoStore]
    /\ ks = [h \in Handles |-> KsOpen(NoStore)]
    /\ last = NoCall
    /\ provKey = [c \in Copies |-> None]
    /\ since = [h \in Handles |-> "none"]
    /\ applied = [c \in Copies |-> None]
    /\ provAcct = [c \in Copies |-> None]
    /\ svc = NoService
    /\ pend = [h \in Handles |-> None]

\* What a successful operation that activates a signer does to `since`.
Activated(s) == IF s = "none" THEN "none" ELSE "activated"

\* The call of Keystore c that is suspended at an await.
Idle(c) == pend[c] = None
Pending(c, op) == pend[c] # None /\ pend[c][1] = op

\* A step that starts a call and leaves it suspended.
Started == [ok |-> TRUE, err |-> ""]

\* open(path) again on the copy's store, up to its second await: the generation
\* is read, or the store cannot be read and open returns the error.
OpenBegin(c) ==
    /\ Idle(c)
    /\ \E readable \in BOOLEAN :
        /\ pend' = [pend EXCEPT ![c] =
                        IF readable THEN << "open", KsOpenRead(store[StoreOf(c)]) >>
                        ELSE None]
        /\ last' = IF readable
                   THEN Call("open.start", c, Started, 0, 0, 0, 0, FALSE)
                   ELSE Call("open", c, [ok |-> FALSE, err |-> "StorageError"],
                             0, 0, 0, 0, FALSE)
    /\ UNCHANGED <<store, ks, provKey, since, applied, provAcct, svc>>

\* open(path) resumed: the device key is asked for and the new Keystore, which
\* replaces the old one, is returned.
OpenFinish(c) ==
    /\ Pending(c, "open")
    /\ ks' = [ks EXCEPT ![c] = KsOpenBuild(pend[c][2], store[StoreOf(c)])]
    /\ pend' = [pend EXCEPT ![c] = None]
    /\ since' = [since EXCEPT ![c] = "none"]
    /\ last' = Call("open", c, Started, 0, 0, 0, 0, FALSE)
    /\ UNCHANGED <<store, provKey, applied, provAcct, svc>>

\* set_device_key on copy c, with force from the given set.
SetDeviceKeyWith(c, forces) ==
    \E seed \in Seeds, p \in Passwords, force \in forces :
        LET r == KsSetDeviceKey(ks[c], store[StoreOf(c)], FromSeed(seed), p, force)
        IN  /\ Idle(c)
            /\ ks' = [ks EXCEPT ![c] = r.ks]
            /\ store' = [store EXCEPT ![StoreOf(c)] = r.st]
            /\ last' = Call("set_device_key", c, r, p, 0, 0, seed, force)
            /\ provKey' = [provKey EXCEPT ![StoreOf(c)] = IF r.ok THEN None ELSE @]
            /\ since' = [since EXCEPT ![c] = IF r.ok THEN Activated(@) ELSE @]
            /\ provAcct' = [provAcct EXCEPT ![StoreOf(c)] = IF r.ok THEN None ELSE @]
            /\ UNCHANGED <<applied, svc, pend>>

SetDeviceKey(c) == SetDeviceKeyWith(c, BOOLEAN)

\* set_device_key without force: it takes effect once, on a store with no device key.
SetFirstDeviceKey(c) == SetDeviceKeyWith(c, {FALSE})

\* provision_device on copy c with a generation from the given set.
ProvisionDeviceWith(c, gens) ==
    \E k \in ProvisionKeys, gen \in gens, seed \in FreshSeeds(store[StoreOf(c)]),
       entropy \in Entropy(store[StoreOf(c)]) :
        LET r == KsProvisionDevice(ks[c], store[StoreOf(c)], k, gen, seed, entropy)
        IN  /\ Idle(c)
            /\ ks' = [ks EXCEPT ![c] = r.ks]
            /\ store' = [store EXCEPT ![StoreOf(c)] = r.st]
            /\ last' = Call("provision_device", c, r, k, gen, 0, 0, FALSE)
            /\ provKey' = [provKey EXCEPT ![StoreOf(c)] = IF r.ok THEN Some(k) ELSE @]
            /\ since' = [since EXCEPT ![c] = IF r.ok THEN Activated(@) ELSE @]
            /\ provAcct' = [provAcct EXCEPT ![StoreOf(c)] = IF r.ok THEN r.account ELSE @]
            /\ UNCHANGED <<applied, svc, pend>>

ProvisionDevice(c) == ProvisionDeviceWith(c, GenInputs)

\* lock() up to its await on the store.
LockBegin(c) ==
    /\ Idle(c)
    /\ ks' = [ks EXCEPT ![c] = KsLockBegin(@)]
    /\ pend' = [pend EXCEPT ![c] = << "lock" >>]
    /\ last' = Call("lock.start", c, Started, 0, 0, 0, 0, FALSE)
    /\ since' = [since EXCEPT ![c] = "lock"]
    /\ UNCHANGED <<store, provKey, applied, provAcct, svc>>

\* lock() resumed: the store locks and lock() returns.
LockFinish(c) ==
    /\ Pending(c, "lock")
    /\ LET r == KsLockStore(ks[c], store[StoreOf(c)])
       IN  /\ ks' = [ks EXCEPT ![c] = r.ks]
           /\ store' = [store EXCEPT ![StoreOf(c)] = r.st]
           /\ last' = Call("lock", c, r, 0, 0, 0, 0, FALSE)
    /\ pend' = [pend EXCEPT ![c] = None]
    /\ UNCHANGED <<provKey, since, applied, provAcct, svc>>

\* The caller drops the suspended lock(): the store's lock() has not taken
\* effect and nothing is returned.
LockCancel(c) ==
    /\ Pending(c, "lock")
    /\ pend' = [pend EXCEPT ![c] = None]
    /\ last' = Call("lock.cancel", c, Started, 0, 0, 0, 0, FALSE)
    /\ UNCHANGED <<store, ks, provKey, since, applied, provAcct, svc>>

Unlock(c) ==
    \E p \in Passwords :
        LET r == KsUnlock(ks[c], store[StoreOf(c)], p)
        IN  /\ Idle(c)
            /\ ks' = [ks EXCEPT ![c] = r.ks]
            /\ store' = [store EXCEPT ![StoreOf(c)] = r.st]
            /\ last' = Call("unlock", c, r, p, 0, 0, 0, FALSE)
            /\ since' = [since EXCEPT ![c] = IF r.ok THEN "none" ELSE @]
            /\ UNCHANGED <<provKey, applied, provAcct, svc, pend>>

ChangePasswordMask(c) ==
    \E p \in Passwords :
        LET r == KsChangePasswordMask(ks[c], store[StoreOf(c)], p)
        IN  /\ Idle(c)
            /\ ks' = [ks EXCEPT ![c] = r.ks]
            /\ store' = [store EXCEPT ![StoreOf(c)] = r.st]
            /\ last' = Call("change_password_mask", c, r, p, r.gen, r.mask, 0, FALSE)
            /\ UNCHANGED <<provKey, since, applied, provAcct, svc, pend>>

\* apply_mask on copy c with a mask and a target generation from the given sets.
ApplyMaskWith(c, masks, gens) ==
    \E mask \in masks, next_gen \in gens :
        LET r == KsApplyMask(ks[c], store[StoreOf(c)], mask, next_gen)
        IN  /\ Idle(c)
            /\ r.ok => (store[StoreOf(c)].sgen < MaxGen \/ store[StoreOf(c)].sgen >= GenMax - 1)
            /\ ks' = [ks EXCEPT ![c] = r.ks]
            /\ store' = [store EXCEPT ![StoreOf(c)] = r.st]
            /\ last' = Call("apply_mask", c, r, 0, next_gen, mask, 0, FALSE)
            /\ provKey' = [provKey EXCEPT ![StoreOf(c)] = IF r.ok THEN None ELSE @]
            /\ applied' = [applied EXCEPT ![StoreOf(c)] =
                               IF r.ok THEN << next_gen, c >> ELSE @]
            /\ UNCHANGED <<since, provAcct, svc, pend>>

\* apply_mask with any mask and any of the target generations tried.
ApplyMask(c) == ApplyMaskWith(c, Keys, NextGenInputs(store[StoreOf(c)]))

\* apply_mask with the (mask, next_gen) that change_password_mask just returned,
\* on the copy that computed it or on its sibling.
DeliverMask(c) ==
    /\ last.op = "change_password_mask"
    /\ last.ok
    /\ ApplyMaskWith(c, {last.mask}, {last.gen})

Step(c) ==
    \/ OpenBegin(c)
    \/ OpenFinish(c)
    \/ SetDeviceKey(c)
    \/ ProvisionDevice(c)
    \/ LockBegin(c)
    \/ LockFinish(c)
    \/ LockCancel(c)
    \/ Unlock(c)
    \/ ChangePasswordMask(c)
    \/ ApplyMask(c)

\* One Keystore on one store.
Next == Step("A")

Spec == Init /\ [][Next]_vars

(***************************************************************************)
(* Parsing and displaying Service identifiers.                             *)
(***************************************************************************)
\* The keystore's variables, which parsing leaves alone.
keystoreVars == <<store, ks, last, provKey, since, applied, provAcct, pend>>

\* string.parse::<Service>()
FromStrCall ==
    /\ \E s \in Strings :
          LET r == FromStr(s)
          IN  svc' = [op |-> "from_str", origin |-> "from_str", inp |-> s, res |-> r,
                      val |-> r.val, out |-> << >>, back |-> NoResult]
    /\ UNCHANGED keystoreVars

\* A Service value built directly: the variant's field is any string.
NewService ==
    /\ \E u \in Strings :
          svc' = [op |-> "new", origin |-> "new", inp |-> << >>, res |-> NoResult,
                  val |-> Github(u), out |-> << >>, back |-> NoResult]
    /\ UNCHANGED keystoreVars

\* service.to_string() on the value held
Display ==
    /\ svc.op \in {"from_str", "new"}
    /\ svc.val # NoVal
    /\ svc' = [svc EXCEPT !.op = "to_string", !.out = Fmt(svc.val)]
    /\ UNCHANGED keystoreVars

\* the displayed string parsed again
Reparse ==
    /\ svc.op = "to_string"
    /\ svc' = [svc EXCEPT !.op = "reparse", !.back = FromStr(svc.out)]
    /\ UNCHANGED keystoreVars

NextParse ==
    \/ FromStrCall
    \/ NewService
    \/ Display
    \/ Reparse

SpecParse == Init /\ [][NextParse]_vars

\* Two copies of a store, each with its own Keystore: a device key is set on
\* both, and the mask of a password change computed on one is sent to either.
\* Copy B is also locked and unlocked; copy A stays unlocked once its key is set.
NextCopies ==
    \/ \E c \in Copies :
        \/ SetFirstDeviceKey(c)
        \/ ChangePasswordMask(c)
        \/ DeliverMask(c)
    \/ LockBegin("B")
    \/ LockFinish("B")
    \/ Unlock("B")

SpecCopies == Init /\ [][NextCopies]_vars

\* Two Keystores opened on one store, their calls interleaved.  open and lock
\* take two steps, one on each side of the await that splits them; every other
\* call is one step: after its one await on the store a handler only assigns its
\* own signer or gen.  &mut self keeps a second call off the same Keystore until
\* the first has returned or was dropped.  Each operation of the store is one
\* step, as section 5 of the design requires of it; the store's code is not
\* among the sources, so nothing here shows that requirement to be met.
Sharers == {"A", "A2"}

\* The store is provisioned at generation 1; a mask is applied for the target
\* another call may already have reached, or for the next one.
SharedGenInputs == {1}
SharedNextGens(st) == {g \in {st.sgen, st.sgen + 1} : g <= GenMax}

\* The masks a change from one password to another yields.
SharedMasks == {Xor(KeyFor(p), KeyFor(q)) : p, q \in Passwords}

\* Keystore A also locks; Keystore A2 is also opened again.
NextShared ==
    \/ \E h \in Sharers :
        \/ ProvisionDeviceWith(h, SharedGenInputs)
        \/ Unlock(h)
        \/ ChangePasswordMask(h)
        \/ ApplyMaskWith(h, SharedMasks, SharedNextGens(store[StoreOf(h)]))
    \/ OpenBegin("A2")
    \/ OpenFinish("A2")
    \/ LockBegin("A")
    \/ LockFinish("A")
    \/ LockCancel("A")

SpecShared == Init /\ [][NextShared]_vars

(***************************************************************************)
(* Claims.                                                                 *)
(***************************************************************************)
\* The copy the last call was made on.
LastStore == store[StoreOf(last.c)]
LastKs == ks[last.c]

\* C1: an apply_mask whose next_gen is not the store's generation + 1 fails with
\* StaleGenerationError and leaves the persisted ciphertext, the persisted
\* generation, gen() and the signer as they were before the call.
C1_StaleMaskRejected ==
    [][(last'.op = "apply_mask" /\ last'.gen # InnerGen(store[last'.c]) + 1)
         => /\ ~last'.ok
            /\ last'.err = "StaleGenerationError"
            /\ store' = store
            /\ KsGen(ks'[last'.c]) = KsGen(ks[last'.c])
            /\ ks' = ks]_vars

C1_Witness ==
    /\ last.op = "apply_mask"
    /\ last.err = "StaleGenerationError"
    /\ LastStore.ct.present
    /\ last.gen # InnerGen(LastStore) + 1
    /\ KsGen(LastKs) > 0

\* C2: a successful provision_device makes gen() return one more than before.
C2_ProvisionBumpsGen ==
    [][(last'.op = "provision_device" /\ last'.ok)
         => KsGen(ks'[last'.c]) = KsGen(ks[last'.c]) + 1]_vars

\* C3: while the ciphertext is the one provision_device wrote under password
\* key K, unlock(P) succeeds exactly when P derives K, and every other
\* password fails with DecryptionError.
C3_OnlyProvisioningPasswordUnlocks ==
    (last.op = "unlock" /\ provKey[last.c] # None)
        => /\ last.ok <=> (KeyFor(last.pw) = provKey[last.c][1])
           /\ ~last.ok => last.err = "DecryptionError"
           /\ last.ok => ChainSigner(LastKs) # None

C3_Witness ==
    /\ last.op = "unlock"
    /\ last.ok
    /\ provKey[last.c] = Some(KeyFor(last.pw))
    /\ ChainSigner(LastKs) = Some([account |-> LastStore.ct.tag[1]])

\* C4: a failed unlock changes neither the signer, nor gen(), nor the persisted
\* ciphertext and generation, nor whether the store is unlocked.
C4_FailedUnlockChangesNothing ==
    [][(last'.op = "unlock" /\ ~last'.ok) => (ks' = ks /\ store' = store)]_vars

C4_Witness ==
    /\ last.op = "unlock"
    /\ last.err = "DecryptionError"
    /\ ChainSigner(LastKs) # None

\* C5 as stated: after lock() no signer is available until an unlock succeeds.
C5_NoSignerUntilUnlock ==
    \A c \in Copies : since[c] \in {"lock", "activated"} => ChainSigner(ks[c]) = None

\* C5, amended: after lock() no signer is available until an unlock, a
\* set_device_key or a provision_device succeeds.
C5_NoSignerUntilActivation ==
    \A c \in Copies : since[c] = "lock" => ChainSigner(ks[c]) = None

C5_Witness ==
    /\ since[last.c] = "lock"
    /\ LastStore.ct.present
    /\ last.op \in {"unlock", "set_device_key", "provision_device"}
    /\ ~last.ok

\* C6: lock() always succeeds, and locking again changes nothing: the state
\* after lock(); lock() is the state after lock().
C6_LockSucceedsIdempotent ==
    last.op = "lock"
        => /\ last.ok
           /\ ChainSigner(LastKs) = None
           /\ LET again == KsLock(LastKs, LastStore)
              IN  again.ok /\ again.ks = LastKs /\ again.st = LastStore

C6_Witness ==
    /\ last.op = "lock"
    /\ last.ok
    /\ LastStore.ct.present
    /\ LastStore.cached = None

C8_MaskComputationReadsOnly ==
    [][last'.op = "change_password_mask"
         => /\ store' = store
            /\ ks' = ks
            /\ ~InnerDeviceKey(store[last'.c]).ok => ~last'.ok
            /\ last'.ok => last'.gen = InnerGen(store[last'.c]) + 1]_vars

C8_Witness ==
    /\ last.op = "change_password_mask"
    /\ last.ok
    /\ last.gen = InnerGen(LastStore) + 1
    /\ last.mask # 0

\* C9: with copies A and B holding the same ciphertext at the same generation
\* g, the (mask, g + 1) change_password_mask(P2) returned on A is accepted by
\* apply_mask on B, leaves B at g + 1, and unlock(P2) on B then succeeds with
\* the signer of the original seed.
C9_MaskTransfersToSibling ==
    [][(/\ last.op = "change_password_mask" /\ last.c = "A" /\ last.ok
        /\ store["A"].ct = store["B"].ct
        /\ InnerGen(store["A"]) = InnerGen(store["B"])
        /\ last'.op = "apply_mask" /\ last'.c = "B"
        /\ last'.mask = last.mask /\ last'.gen = last.gen)
         => /\ last'.ok
            /\ InnerGen(store'["B"]) = InnerGen(store["A"]) + 1
            /\ KsGen(ks'["B"]) = InnerGen(store["A"]) + 1
            /\ LET u == KsUnlock(ks'["B"], store'["B"], last.pw)
               IN  /\ u.ok
                   /\ u.ks.signer = Some(ToSigner(FromSeed(store["A"].cached[1])))]_vars

\* B is locked, so the mask it just applied was computed on A.
C9_Witness ==
    /\ last.op = "apply_mask" /\ last.c = "B" /\ last.ok
    /\ store["B"].cached = None
    /\ store["A"].cached # None
    /\ store["B"].ct.tag = store["A"].ct.tag
    /\ store["B"].ct.body # store["A"].ct.body
    /\ InnerGen(store["B"]) = InnerGen(store["A"]) + 1
    /\ InnerGen(store["B"]) >= 2
    /\ \E p \in Passwords : KsUnlock(ks["B"], store["B"], p).ok

\* C10: gen() never decreases, and every successful apply_mask raises it by
\* exactly 1, to next_gen.
C10_GenStepsByOne ==
    [][\A c \in Copies :
         /\ KsGen(ks'[c]) >= KsGen(ks[c])
         /\ (last'.op = "apply_mask" /\ last'.c = c /\ last'.ok)
              => (KsGen(ks'[c]) = KsGen(ks[c]) + 1 /\ KsGen(ks'[c]) = last'.gen)]_vars

\* C11: once apply_mask has succeeded on a store with target n, every later
\* apply_mask on it with the same or a smaller next_gen fails with
\* StaleGenerationError, so no target is applied twice.
C11_NoReplay ==
    [][(/\ last'.op = "apply_mask"
        /\ applied[StoreOf(last'.c)] # None
        /\ last'.gen <= applied[StoreOf(last'.c)][1])
         => /\ ~last'.ok
            /\ last'.err = "StaleGenerationError"
            /\ store' = store
            /\ applied' = applied]_vars

C11_Witness ==
    /\ last.op = "apply_mask"
    /\ last.err = "StaleGenerationError"
    /\ applied[StoreOf(last.c)] # None
    /\ last.gen = applied[StoreOf(last.c)][1]
    /\ last.gen = InnerGen(LastStore)

C13_ProvisionOnceUnlessForced ==
    [][/\ (/\ last'.op \in {"provision_device", "set_device_key"}
           /\ store[StoreOf(last'.c)].ct.present
           /\ ~last'.force)
         => (/\ ~last'.ok
             /\ last'.err = "HasDeviceKey"
             /\ store' = store
             /\ ks' = ks)
       /\ \A c \in Copies :
            (store[c].ct.present /\ store'[c].ct.tag # store[c].ct.tag)
              => (last'.op = "set_device_key" /\ last'.force /\ last'.ok)]_vars

C13_Witness ==
    /\ last.op = "provision_device"
    /\ last.err = "HasDeviceKey"
    /\ ChainSigner(LastKs) # None
    /\ InnerGen(LastStore) # last.gen

\* C16: gen() is the generation persisted in the store, in every state.
C16_GenNeverStale ==
    \A c \in Copies : KsGen(ks[c]) = InnerGen(store[c])

\* C17: a rejected set_device_key leaves the signer as it was, an accepted one
\* makes it the signer of the supplied key; gen() is unchanged either way.
C17_SignerAfterStoreAccepts ==
    [][last'.op = "set_device_key"
         => /\ ~last'.ok => ChainSigner(ks'[last'.c]) = ChainSigner(ks[last'.c])
            /\ last'.ok => ChainSigner(ks'[last'.c]) = Some([account |-> Pub(last'.seed)])
            /\ KsGen(ks'[last'.c]) = KsGen(ks[last'.c])]_vars

C17_Witness ==
    /\ last.op = "set_device_key" /\ last.ok /\ last.force
    /\ ChainSigner(LastKs) = Some([account |-> Pub(last.seed)])
    /\ KsGen(LastKs) > 0

\* C18: when the mask change_password_mask(P2) returned is applied to a store
\* that password P1 # P2 unlocked, afterwards unlock(P2) succeeds and every
\* other password, P1 included, fails with DecryptionError.
C18_OldPasswordRetired ==
    [][(/\ last.op = "change_password_mask" /\ last.ok
        /\ last'.op = "apply_mask" /\ last'.ok /\ last'.c = last.c
        /\ last'.mask = last.mask /\ last'.gen = last.gen
        /\ \E p1 \in Passwords :
              p1 # last.pw /\ KsUnlock(ks[last.c], store[StoreOf(last.c)], p1).ok)
         => \A p \in Passwords :
              LET u == KsUnlock(ks'[last.c], store'[StoreOf(last.c)], p)
              IN  /\ u.ok <=> (p = last.pw)
                  /\ ~u.ok => u.err = "DecryptionError"]_vars

\* The mask just applied re-keyed the store to the password of the last call's
\* mask: some password unlocks it and the mask was no identity.
C18_Witness ==
    /\ last.op = "apply_mask" /\ last.ok /\ last.mask # 0
    /\ \E p \in Passwords, q \in Passwords :
          /\ p # q
          /\ last.mask = Xor(KeyFor(p), KeyFor(q))
          /\ KsUnlock(LastKs, LastStore, p).ok
          /\ KsUnlock(LastKs, LastStore, q).err = "DecryptionError"

\* C20: while the key provision_device created is in the store, a signer that
\* is present has the account provision_device returned.
C20_SignerIdentityStable ==
    \A c \in Copies :
        (provAcct[c] # None /\ ChainSigner(ks[c]) # None)
            => ChainSigner(ks[c])[1].account = provAcct[c][1]

C20_Witness ==
    /\ last.op = "unlock" /\ last.ok
    /\ provAcct[last.c] # None
    /\ applied[last.c] # None
    /\ ChainSigner(LastKs) = Some([account |-> provAcct[last.c][1]])

\* The positions of "@" in a string.
AtPositions(s) == {i \in 1 .. Len(s) : s[i] = At}

\* C14: from_str returns Github(username) exactly for username@github with one
\* "@" and a non-empty username; Unknown(service) exactly for one "@" between a
\* non-empty username and a non-empty service other than github; Invalid for
\* every other string.
C14_FromStrAccepts ==
    svc.op = "from_str"
        => LET s == svc.inp
               shaped == /\ Cardinality(AtPositions(s)) = 1
                         /\ s[1] # At
                         /\ s[Len(s)] # At
               i == CHOOSE i \in AtPositions(s) : TRUE
               username == SubSeq(s, 1, i - 1)
               service == SubSeq(s, i + 1, Len(s))
           IN  IF shaped /\ service = GithubName
                 THEN svc.res = ParseOk(Github(username))
               ELSE IF shaped
                 THEN svc.res = ParseUnknown(service)
               ELSE svc.res = ParseInvalid

C14_Witness ==
    /\ svc.op = "from_str"
    /\ svc.res.kind = "Unknown"
    /\ Len(svc.res.unknown) > 3
    /\ Len(svc.inp) > Len(svc.res.unknown) + 1

\* C19 as stated: displaying a parsed Service gives back the string parsed, and
\* parsing the display of any Service value gives back the value.
C19_RoundTrip ==
    /\ (svc.op \in {"to_string", "reparse"} /\ svc.origin = "from_str")
         => svc.out = svc.inp
    /\ svc.op = "reparse" => svc.back = ParseOk(svc.val)

\* C19, amended: displaying a parsed Service gives back the string parsed, and
\* parsing the display of a Service value whose username is non-empty and holds
\* no "@" gives back the value.
C19_RoundTripCanonical ==
    /\ (svc.op \in {"to_string", "reparse"} /\ svc.origin = "from_str")
         => svc.out = svc.inp
    /\ (/\ svc.op = "reparse"
        /\ Username(svc.val) # << >>
        /\ AtPositions(Username(svc.val)) = {})
         => svc.back = ParseOk(svc.val)

C19_Witness ==
    /\ svc.op = "reparse"
    /\ svc.origin = "from_str"
    /\ Len(Username(svc.val)) > 1
    /\ svc.out = svc.inp
    /\ svc.back = ParseOk(svc.val)

====
